---- MODULE Spec2Model ----
(***************************************************************************)
(* A model of memstore (src/memstore/store.go): a map from captcha id to   *)
(* an item (answer, expiration), guarded by one sync.RWMutex, written by   *)
(* Set, read by Get, consumed by Get(id, clear = true) and swept by the    *)
(* gc goroutine that New starts.                                           *)
(*                                                                         *)
(* Time is time.Now().UnixNano(), an integer that never decreases here.    *)
(* The lock is sync.RWMutex: Lock first takes the writers' mutex and       *)
(* announces the writer, which holds new readers back, then waits for the  *)
(* readers inside to leave; RLock waits while a writer is announced.  A    *)
(* call starts with the step that gets it past that first wait, so a       *)
(* caller goes idle -> (drain ->) cs -> idle; the step that leaves cs runs *)
(* the body of the critical section and the deferred Unlock and returns.   *)
(***************************************************************************)
EXTENDS Integers, FiniteSets, TLC

\* ------------------------------------------------------------- bounds
MaxTime == 1

Threads == {"t1", "t2"}
Ids == {"x", "y"}
Answers == {"a", "b"}
\* Expiration(d) accepts any time.Duration, a negative one included.
Expirations == {-1, 0, 1}

\* ------------------------------------------------------------- errors
nil == "nil"
ErrIncorrectCaptcha == "ErrIncorrectCaptcha"
ErrExpiredCaptcha == "ErrExpiredCaptcha"

\* ------------------------------------------------------------- state
VARIABLES
    expiration,   \* s.expiration, fixed by New
    now,          \* the clock, time.Now().UnixNano()
    items,        \* s.items: a function whose domain is the set of stored ids
    writer,       \* the announced writer of s.mu (waiting for the readers to leave,
                  \*   or inside its critical section), or NoOne
    readers,      \* who holds s.mu shared
    pc,           \* each caller thread's position
    op,           \* the call a thread is in
    ret,          \* what a thread's last call returned, and its clear flag
    gcpc,         \* the gc goroutine's position
    gcNow,        \* deleteExpired's local now
    pending,      \* history: per id, the answer and time of the latest Set(id)
                  \*   whose entry no Get(id, true) took and no sweep deleted
    consumed,     \* history: ids whose entry a Get(id, true) took since the last Set(id)
    expired,      \* history: ids a Get has returned ErrExpiredCaptcha for since the
                  \*   last Set(id)
    fresh         \* history: per thread, the id it Set and whether that Set replaced
                  \*   a stored entry of another answer, as long as the thread has
                  \*   called nothing since but Get on that id and no other call and
                  \*   no sweep has changed or removed that entry

vars == <<expiration, now, items, writer, readers, pc, op, ret, gcpc, gcNow,
          pending, consumed, expired, fresh>>

NoOne == "none"
GC == "gc"
NoOp == [kind |-> "none", id |-> "", answer |-> "", clear |-> FALSE]
NoRet == [answer |-> "", err |-> "none", clear |-> FALSE]
NoFresh == [id |-> "", over |-> FALSE]
\* a nil *item
NilItem == [expiration |-> 0, answer |-> ""]

\* ------------------------------------------------------------- helpers
\* mutant: the comparison is not strict
Elapsed_NotStrict(t, it) == t >= it.expiration

\* mutant: the item is still taken as valid one tick after its expiration
Elapsed_Late(t, it) == t > it.expiration + 1

\* time.Now().UnixNano() > item.expiration
Elapsed(t, it) == t > it.expiration

\* mutant: a missing id is reported as expired
get_MissingIsExpired(id) ==
    IF id \notin DOMAIN items
    THEN [item |-> NilItem, err |-> ErrExpiredCaptcha]
    ELSE IF Elapsed(now, items[id])
         THEN [item |-> NilItem, err |-> ErrExpiredCaptcha]
         ELSE [item |-> items[id], err |-> nil]

\* store.get: look id up in the map, then compare the clock with the item.
get(id) ==
    IF id \notin DOMAIN items
    THEN [item |-> NilItem, err |-> ErrIncorrectCaptcha]
    ELSE IF Elapsed(now, items[id])
         THEN [item |-> NilItem, err |-> ErrExpiredCaptcha]
         ELSE [item |-> items[id], err |-> nil]

\* mutant: delete removes nothing
Delete_Nothing(m, id) == m

\* delete(s.items, id)
Delete(m, id) == [i \in (DOMAIN m) \ {id} |-> m[i]]

\* mutant: an expired entry is deleted by the read that finds it
getAndDel_DeleteExpired(id) ==
    LET r == get(id) IN
    IF r.err = ErrIncorrectCaptcha
    THEN [item |-> NilItem, err |-> r.err, items |-> items]
    ELSE [item |-> r.item, err |-> r.err, items |-> Delete(items, id)]

\* mutant: the delete is left out
getAndDel_NoDelete(id) ==
    LET r == get(id) IN
    IF r.err # nil
    THEN [item |-> NilItem, err |-> r.err, items |-> items]
    ELSE [item |-> r.item, err |-> r.err, items |-> items]

\* store.getAndDel between Lock and Unlock: get, and delete when get succeeded.
\* items is the map it leaves.
getAndDel(id) ==
    LET r == get(id) IN
    IF r.err # nil
    THEN [item |-> NilItem, err |-> r.err, items |-> items]
    ELSE [item |-> r.item, err |-> r.err, items |-> Delete(items, id)]

\* What Get returns for what get / getAndDel gave it.
GetResult(r) ==
    IF r.err # nil
    THEN [answer |-> "", err |-> r.err]
    ELSE [answer |-> r.item.answer, err |-> nil]

\* history: a returned (answer, err) with the clear flag of the call
Returned(r, clear) == [answer |-> r.answer, err |-> r.err, clear |-> clear]

\* mutant: the answer is not stored
NewItem_NoAnswer(answer) == [expiration |-> now + expiration, answer |-> ""]

\* mutant: s.expiration is not added
NewItem_NoTTL(answer) == [expiration |-> now, answer |-> answer]

\* &item{expiration: time.Now().Add(s.expiration).UnixNano(), answer: answer}
NewItem(answer) == [expiration |-> now + expiration, answer |-> answer]

\* mutant: an id that is already stored keeps its entry
Store_IfAbsent(m, id, it) ==
    [i \in (DOMAIN m) \cup {id} |-> IF i \in DOMAIN m THEN m[i] ELSE it]

\* mutant: the assignment drops the entries of the other ids
Store_Alone(m, id, it) == [i \in {id} |-> it]

\* s.items[id] = it
Store(m, id, it) == [i \in (DOMAIN m) \cup {id} |-> IF i = id THEN it ELSE m[i]]

\* mutant: the loop deletes nothing
Sweep_Nothing(m, t) == m

\* mutant: the loop deletes one tick early
Sweep_Early(m, t) == [i \in {j \in DOMAIN m : ~(t + 1 > m[j].expiration)} |-> m[i]]

\* mutant: the loop reads the clock again instead of using its sample
Sweep_Resample(m, t) == [i \in {j \in DOMAIN m : ~(now > m[j].expiration)} |-> m[i]]

\* mutant: the loop deletes every entry
Sweep_All(m, t) == [i \in {} |-> NilItem]

\* the loop of deleteExpired
Sweep(m, t) == [i \in {j \in DOMAIN m : ~Elapsed(t, m[j])} |-> m[i]]

\* s.mu.Lock() can take the writers' mutex and announce the writer
CanLock == writer = NoOne

\* mutant: Lock does not wait for the readers
Drained_IgnoreReaders == TRUE

\* s.mu.Lock() can return: the readers have left
Drained == readers = {}

\* mutant: RLock waits for the readers too, as Lock does
CanRLock_Alone == writer = NoOne /\ readers = {}

\* mutant: RLock does not wait for the writer
CanRLock_IgnoreWriter == TRUE

\* s.mu.RLock() can return
CanRLock == writer = NoOne

\* history: the threads whose fresh entry is the one of id lose it
Touch(id) == [t \in Threads |-> IF fresh[t].id = id THEN NoFresh ELSE fresh[t]]

\* ------------------------------------------------------------- Init
Init ==
    /\ expiration \in Expirations
    /\ now = 0
    /\ items = [i \in {} |-> NilItem]
    /\ writer = NoOne
    /\ readers = {}
    /\ pc = [t \in Threads |-> "idle"]
    /\ op = [t \in Threads |-> NoOp]
    /\ ret = [t \in Threads |-> NoRet]
    /\ gcpc = "idle"
    /\ gcNow = 0
    /\ pending = [i \in {} |-> [answer |-> "", at |-> 0]]
    /\ consumed = {}
    /\ expired = {}
    /\ fresh = [t \in Threads |-> NoFresh]

\* ------------------------------------------------------------- clock
\* mutant: the clock can also be set back
Tick_Back ==
    /\ now' \in {now - 1, now + 1} \cap (0..MaxTime)
    /\ UNCHANGED <<expiration, items, writer, readers, pc, op, ret, gcpc, gcNow,
                   pending, consumed, expired, fresh>>

Tick ==
    /\ now < MaxTime
    /\ now' = now + 1
    /\ UNCHANGED <<expiration, items, writer, readers, pc, op, ret, gcpc, gcNow,
                   pending, consumed, expired, fresh>>

\* ------------------------------------------------------------- Set
\* Set is called; s.mu.Lock() takes the writers' mutex and announces the writer
SetLock(t, id, answer) ==
    /\ pc[t] = "idle"
    /\ CanLock
    /\ writer' = t
    /\ pc' = [pc EXCEPT ![t] = "drain"]
    /\ op' = [op EXCEPT ![t] = [kind |-> "Set", id |-> id, answer |-> answer,
                                clear |-> FALSE]]
    /\ ret' = [ret EXCEPT ![t] = NoRet]
    /\ fresh' = [fresh EXCEPT ![t] = NoFresh]
    /\ UNCHANGED <<expiration, now, items, readers, gcpc, gcNow, pending, consumed, expired>>

\* s.mu.Lock() returns
SetEnter(t) ==
    /\ pc[t] = "drain"
    /\ op[t].kind = "Set"
    /\ Drained
    /\ pc' = [pc EXCEPT ![t] = "cs"]
    /\ UNCHANGED <<expiration, now, items, writer, readers, op, ret, gcpc, gcNow,
                   pending, consumed, expired, fresh>>

\* the map assignment, the deferred Unlock, return nil
SetBody(t) ==
    /\ pc[t] = "cs"
    /\ op[t].kind = "Set"
    /\ items' = Store(items, op[t].id, NewItem(op[t].answer))
    /\ writer' = NoOne
    /\ ret' = [ret EXCEPT ![t] = Returned([answer |-> "", err |-> nil], FALSE)]
    /\ pc' = [pc EXCEPT ![t] = "idle"]
    /\ op' = [op EXCEPT ![t] = NoOp]
    /\ pending' = [i \in (DOMAIN pending) \cup {op[t].id} |->
                      IF i = op[t].id THEN [answer |-> op[t].answer, at |-> now]
                      ELSE pending[i]]
    /\ consumed' = consumed \ {op[t].id}
    /\ expired' = expired \ {op[t].id}
    /\ fresh' = [Touch(op[t].id) EXCEPT ![t] =
                    [id |-> op[t].id,
                     over |-> /\ op[t].id \in DOMAIN items
                              /\ items[op[t].id].answer # op[t].answer]]
    /\ UNCHANGED <<expiration, now, readers, gcpc, gcNow>>

\* ------------------------------------------------------------- Get
\* Get(id, false) is called; s.mu.RLock() returns
GetRLock(t, id) ==
    /\ pc[t] = "idle"
    /\ CanRLock
    /\ readers' = readers \cup {t}
    /\ pc' = [pc EXCEPT ![t] = "cs"]
    /\ op' = [op EXCEPT ![t] = [kind |-> "Get", id |-> id, answer |-> "",
                                clear |-> FALSE]]
    /\ ret' = [ret EXCEPT ![t] = NoRet]
    /\ fresh' = [fresh EXCEPT ![t] = IF fresh[t].id = id THEN fresh[t] ELSE NoFresh]
    /\ UNCHANGED <<expiration, now, items, writer, gcpc, gcNow, pending, consumed, expired>>

\* mutant: Get deletes what it returns whatever the clear flag
GetBody_Deletes(t) ==
    /\ pc[t] = "cs"
    /\ op[t].kind = "Get"
    /\ ~op[t].clear
    /\ ret' = [ret EXCEPT ![t] = Returned(GetResult(get(op[t].id)), FALSE)]
    /\ items' = getAndDel(op[t].id).items
    /\ readers' = readers \ {t}
    /\ pc' = [pc EXCEPT ![t] = "idle"]
    /\ op' = [op EXCEPT ![t] = NoOp]
    /\ expired' = IF get(op[t].id).err = ErrExpiredCaptcha
                  THEN expired \cup {op[t].id} ELSE expired
    /\ UNCHANGED <<expiration, now, writer, gcpc, gcNow, pending, consumed, fresh>>

\* mutant: a Get that returns a value renews the entry's expiration
GetBody_Renews(t) ==
    /\ pc[t] = "cs"
    /\ op[t].kind = "Get"
    /\ ~op[t].clear
    /\ ret' = [ret EXCEPT ![t] = Returned(GetResult(get(op[t].id)), FALSE)]
    /\ items' = IF get(op[t].id).err # nil THEN items
                ELSE Store(items, op[t].id, NewItem(items[op[t].id].answer))
    /\ readers' = readers \ {t}
    /\ pc' = [pc EXCEPT ![t] = "idle"]
    /\ op' = [op EXCEPT ![t] = NoOp]
    /\ expired' = IF get(op[t].id).err = ErrExpiredCaptcha
                  THEN expired \cup {op[t].id} ELSE expired
    /\ UNCHANGED <<expiration, now, writer, gcpc, gcNow, pending, consumed, fresh>>

\* Get, clear = false: s.get(id), the deferred RUnlock, return
GetBody(t) ==
    /\ pc[t] = "cs"
    /\ op[t].kind = "Get"
    /\ ~op[t].clear
    /\ ret' = [ret EXCEPT ![t] = Returned(GetResult(get(op[t].id)), FALSE)]
    /\ readers' = readers \ {t}
    /\ pc' = [pc EXCEPT ![t] = "idle"]
    /\ op' = [op EXCEPT ![t] = NoOp]
    /\ expired' = IF get(op[t].id).err = ErrExpiredCaptcha
                  THEN expired \cup {op[t].id} ELSE expired
    /\ UNCHANGED <<expiration, now, items, writer, gcpc, gcNow, pending, consumed,
                   fresh>>

\* Get(id, true) is called; getAndDel: s.mu.Lock() takes the writers' mutex and
\* announces the writer
GetAndDelLock(t, id) ==
    /\ pc[t] = "idle"
    /\ CanLock
    /\ writer' = t
    /\ pc' = [pc EXCEPT ![t] = "drain"]
    /\ op' = [op EXCEPT ![t] = [kind |-> "Get", id |-> id, answer |-> "",
                                clear |-> TRUE]]
    /\ ret' = [ret EXCEPT ![t] = NoRet]
    /\ fresh' = [fresh EXCEPT ![t] = IF fresh[t].id = id THEN fresh[t] ELSE NoFresh]
    /\ UNCHANGED <<expiration, now, items, readers, gcpc, gcNow, pending, consumed, expired>>

\* getAndDel: s.mu.Lock() returns
GetAndDelEnter(t) ==
    /\ pc[t] = "drain"
    /\ op[t].kind = "Get"
    /\ op[t].clear
    /\ Drained
    /\ pc' = [pc EXCEPT ![t] = "cs"]
    /\ UNCHANGED <<expiration, now, items, writer, readers, op, ret, gcpc, gcNow,
                   pending, consumed, expired, fresh>>

\* mutant: getAndDel unlocks after the delete only, not on the error return
GetAndDelBody_KeepsLock(t) ==
    /\ pc[t] = "cs"
    /\ op[t].kind = "Get"
    /\ op[t].clear
    /\ LET r == getAndDel(op[t].id) IN
         /\ ret' = [ret EXCEPT ![t] = Returned(GetResult(r), TRUE)]
         /\ items' = r.items
         /\ pending' = IF r.err # nil THEN pending
                       ELSE [i \in (DOMAIN pending) \ {op[t].id} |-> pending[i]]
         /\ consumed' = IF r.err # nil THEN consumed ELSE consumed \cup {op[t].id}
         /\ expired' = IF r.err = ErrExpiredCaptcha
                       THEN expired \cup {op[t].id} ELSE expired
         /\ fresh' = IF r.err # nil THEN fresh ELSE Touch(op[t].id)
         /\ writer' = IF r.err # nil THEN writer ELSE NoOne
    /\ pc' = [pc EXCEPT ![t] = "idle"]
    /\ op' = [op EXCEPT ![t] = NoOp]
    /\ UNCHANGED <<expiration, now, readers, gcpc, gcNow>>

\* getAndDel: s.get(id), delete on success, the deferred Unlock; Get returns
GetAndDelBody(t) ==
    /\ pc[t] = "cs"
    /\ op[t].kind = "Get"
    /\ op[t].clear
    /\ LET r == getAndDel(op[t].id) IN
         /\ ret' = [ret EXCEPT ![t] = Returned(GetResult(r), TRUE)]
         /\ items' = r.items
         /\ pending' = IF r.err # nil THEN pending
                       ELSE [i \in (DOMAIN pending) \ {op[t].id} |-> pending[i]]
         /\ consumed' = IF r.err # nil THEN consumed ELSE consumed \cup {op[t].id}
         /\ expired' = IF r.err = ErrExpiredCaptcha
                       THEN expired \cup {op[t].id} ELSE expired
         /\ fresh' = IF r.err # nil THEN fresh ELSE Touch(op[t].id)
    /\ writer' = NoOne
    /\ pc' = [pc EXCEPT ![t] = "idle"]
    /\ op' = [op EXCEPT ![t] = NoOp]
    /\ UNCHANGED <<expiration, now, readers, gcpc, gcNow>>

\* ------------------------------------------------------------- gc
\* ticker.C fires; deleteExpired samples the clock
GcSample ==
    /\ gcpc = "idle"
    /\ gcNow' = now
    /\ gcpc' = "lock"
    /\ UNCHANGED <<expiration, now, items, writer, readers, pc, op, ret,
                   pending, consumed, expired, fresh>>

\* deleteExpired: s.mu.Lock(), first half
GcLock ==
    /\ gcpc = "lock"
    /\ CanLock
    /\ writer' = GC
    /\ gcpc' = "drain"
    /\ UNCHANGED <<expiration, now, items, readers, pc, op, ret, gcNow,
                   pending, consumed, expired, fresh>>

\* deleteExpired: s.mu.Lock() returns
GcEnter ==
    /\ gcpc = "drain"
    /\ Drained
    /\ gcpc' = "cs"
    /\ UNCHANGED <<expiration, now, items, writer, readers, pc, op, ret, gcNow,
                   pending, consumed, expired, fresh>>

\* the loop, the deferred Unlock
GcBody ==
    /\ gcpc = "cs"
    /\ items' = Sweep(items, gcNow)
    /\ writer' = NoOne
    /\ gcpc' = "idle"
    /\ gcNow' = 0
    /\ pending' = [i \in (DOMAIN pending) \cap (DOMAIN items') |-> pending[i]]
    /\ fresh' = [t \in Threads |->
                    IF fresh[t].id \in (DOMAIN items) \ DOMAIN items'
                    THEN NoFresh ELSE fresh[t]]
    /\ UNCHANGED <<expiration, now, readers, pc, op, ret, consumed, expired>>

\* ------------------------------------------------------------- Next
\* the steps of the store when the callers pass ids of I and answers of A
NextOn(I, A) ==
    \/ Tick
    \/ \E t \in Threads, id \in I, answer \in A : SetLock(t, id, answer)
    \/ \E t \in Threads : SetEnter(t)
    \/ \E t \in Threads : SetBody(t)
    \/ \E t \in Threads, id \in I : GetRLock(t, id)
    \/ \E t \in Threads : GetBody(t)
    \/ \E t \in Threads, id \in I : GetAndDelLock(t, id)
    \/ \E t \in Threads : GetAndDelEnter(t)
    \/ \E t \in Threads : GetAndDelBody(t)
    \/ GcSample
    \/ GcLock
    \/ GcEnter
    \/ GcBody

Next == NextOn(Ids, Answers)

Spec == Init /\ [][Next]_vars

\* The ticker keeps firing; a critical section runs to its Unlock; an announced
\* writer enters once the readers have left; and the sweep, waiting for the
\* writers' mutex, gets it if it is free again and again (sync.Mutex hands over to
\* a starving waiter).  Nothing makes a caller call.
Fairness ==
    /\ WF_vars(GcSample)
    /\ SF_vars(GcLock)
    /\ WF_vars(GcEnter)
    /\ WF_vars(GcBody)
    /\ \A t \in Threads :
          /\ WF_vars(SetEnter(t))
          /\ WF_vars(SetBody(t))
          /\ WF_vars(GetBody(t))
          /\ WF_vars(GetAndDelEnter(t))
          /\ WF_vars(GetAndDelBody(t))

\* The store with one id and one answer in use, under that fairness: the
\* specification of the liveness claims.
LiveNext == NextOn({"x"}, {"a"})

LiveSpec == Init /\ [][LiveNext]_vars /\ Fairness

\* ------------------------------------------------------------- calls that wait
\* The same store with the wait at the lock made a position of its own: a caller
\* goes idle -> wait -> (drain ->) cs -> idle.  In Spec and LiveSpec a call starts
\* with the step that takes the lock; here it starts with Call and waits.

\* the calls on ids of I with answers of A
Calls(I, A) ==
    {[kind |-> "Set", id |-> i, answer |-> a, clear |-> FALSE] : i \in I, a \in A}
    \cup {[kind |-> "Get", id |-> i, answer |-> "", clear |-> c] : i \in I, c \in BOOLEAN}

\* t calls Set or Get and comes to its s.mu.Lock() or s.mu.RLock()
Call(t, o) ==
    /\ pc[t] = "idle"
    /\ pc' = [pc EXCEPT ![t] = "wait"]
    /\ op' = [op EXCEPT ![t] = o]
    /\ ret' = [ret EXCEPT ![t] = NoRet]
    /\ fresh' = [fresh EXCEPT ![t] =
                    IF o.kind = "Get" /\ fresh[t].id = o.id THEN fresh[t] ELSE NoFresh]
    /\ UNCHANGED <<expiration, now, items, writer, readers, gcpc, gcNow,
                   pending, consumed, expired>>

\* Set, getAndDel: s.mu.Lock() takes the writers' mutex and announces the writer
Lock(t) ==
    /\ pc[t] = "wait"
    /\ op[t].kind = "Set" \/ op[t].clear
    /\ CanLock
    /\ writer' = t
    /\ pc' = [pc EXCEPT ![t] = "drain"]
    /\ UNCHANGED <<expiration, now, items, readers, op, ret, gcpc, gcNow,
                   pending, consumed, expired, fresh>>

\* Get, clear = false: s.mu.RLock() returns
RLock(t) ==
    /\ pc[t] = "wait"
    /\ op[t].kind = "Get" /\ ~op[t].clear
    /\ CanRLock
    /\ readers' = readers \cup {t}
    /\ pc' = [pc EXCEPT ![t] = "cs"]
    /\ UNCHANGED <<expiration, now, items, writer, op, ret, gcpc, gcNow,
                   pending, consumed, expired, fresh>>

CallNext ==
    \/ Tick
    \/ \E t \in Threads, o \in Calls({"x"}, {"a"}) : Call(t, o)
    \/ \E t \in Threads : Lock(t)
    \/ \E t \in Threads : RLock(t)
    \/ \E t \in Threads : SetEnter(t)
    \/ \E t \in Threads : SetBody(t)
    \/ \E t \in Threads : GetBody(t)
    \/ \E t \in Threads : GetAndDelEnter(t)
    \/ \E t \in Threads : GetAndDelBody(t)
    \/ GcSample
    \/ GcLock
    \/ GcEnter
    \/ GcBody

\* Fair lock acquisition: a caller that waits for the lock gets it if it can get it
\* again and again.
FairLock == \A t \in Threads : SF_vars(Lock(t)) /\ SF_vars(RLock(t))

CallSpec == Init /\ [][CallNext]_vars /\ Fairness /\ FairLock

\* ------------------------------------------------------------- claims
\* t's Get leaves its critical section and returns in this step
GetReturns(t) == pc[t] = "cs" /\ op[t].kind = "Get" /\ pc'[t] = "idle"
\* t's Set leaves its critical section and returns in this step
SetReturns(t) == pc[t] = "cs" /\ op[t].kind = "Set" /\ pc'[t] = "idle"
\* a Set(id) stored an entry that no Get took and no sweep deleted, and the clock
\* has not passed that Set's time plus the expiration
Live(id) == id \in DOMAIN pending /\ now <= pending[id].at + expiration
\* what a call returned, whatever its clear flag
Result(r) == [answer |-> r.answer, err |-> r.err]
Value(answer) == [answer |-> answer, err |-> nil]
Failure(err) == [answer |-> "", err |-> err]

\* C1: consume-once.  A Get(id, true) that checks the entry of the latest Set(id, v)
\* before it expires returns (v, nil) and removes the entry; every Get(id, *) that
\* runs after a Get(id, true) took the entry, with no Set(id) since, returns
\* ErrIncorrectCaptcha (NotFound).
C1_ConsumeOnce ==
    [][\A t \in Threads : GetReturns(t) =>
          /\ (op[t].clear /\ Live(op[t].id)) =>
                /\ Result(ret'[t]) = Value(pending[op[t].id].answer)
                /\ op[t].id \notin DOMAIN items'
          /\ op[t].id \in consumed => Result(ret'[t]) = Failure(ErrIncorrectCaptcha)]_vars

\* Only t1 has ever called; its last call was a Get that returned NotFound while y
\* was stored, so it was a Get on x, after its own Get(x, true) took the entry.
C1_Witness ==
    /\ pc["t2"] = "idle" /\ ret["t2"] = NoRet
    /\ pc["t1"] = "idle" /\ Result(ret["t1"]) = Failure(ErrIncorrectCaptcha)
    /\ consumed = {"x"}
    /\ "y" \in DOMAIN items

\* C2: a Get (either flag) that finds an entry whose expiration the clock has passed
\* returns ErrExpiredCaptcha: no value, and not NotFound.
C2_ExpiredNeverReturned ==
    [][\A t \in Threads :
          (/\ GetReturns(t)
           /\ op[t].id \in DOMAIN items
           /\ now > items[op[t].id].expiration)
          => Result(ret'[t]) = Failure(ErrExpiredCaptcha)]_vars

\* A Get has returned ErrExpiredCaptcha while the expired entry is still stored.
C2_Witness ==
    \E t \in Threads : \E id \in DOMAIN items :
        /\ Result(ret[t]) = Failure(ErrExpiredCaptcha)
        /\ now > items[id].expiration

\* C3: round trip.  A Get(id, false) by the thread that Set(id, v), with nothing
\* but that thread's own Gets on id in between and no later than the expiration
\* after the Set, returns (v, nil).
C3_RoundTrip ==
    [][\A t \in Threads :
          (/\ GetReturns(t)
           /\ ~op[t].clear
           /\ fresh[t].id = op[t].id
           /\ Live(op[t].id))
          => Result(ret'[t]) = Value(pending[op[t].id].answer)]_vars

\* A thread's Get that followed its own Set has returned the answer.
C3_Witness ==
    \E t \in Threads :
        /\ pc[t] = "idle"
        /\ fresh[t] # NoFresh
        /\ ret[t].err = nil
        /\ ret[t].answer \in Answers

\* C4: what Get returns is a function of the map and the clock, the same for both
\* flags: NotFound exactly when id is not in the map, Expired exactly when it is
\* and the clock has passed its expiration, the stored answer otherwise; with an
\* error the answer is "".
C4_GetOutcome ==
    [][\A t \in Threads : GetReturns(t) =>
          /\ ret'[t].err = ErrIncorrectCaptcha <=> op[t].id \notin DOMAIN items
          /\ ret'[t].err = ErrExpiredCaptcha <=>
                (op[t].id \in DOMAIN items /\ now > items[op[t].id].expiration)
          /\ ret'[t].err = nil <=>
                (op[t].id \in DOMAIN items /\ now <= items[op[t].id].expiration)
          /\ ret'[t].err = nil => ret'[t].answer = items[op[t].id].answer
          /\ ret'[t].err # nil => ret'[t].answer = ""]_vars

\* A Get(id, true) has returned NotFound and a Get(id, false) Expired.
C4_Witness ==
    /\ ret["t1"] = Returned(Failure(ErrIncorrectCaptcha), TRUE)
    /\ ret["t2"] = Returned(Failure(ErrExpiredCaptcha), FALSE)


\* C5: overwrite.  A Set(id, b) on an id that is stored, expired or not, leaves the
\* map with the same ids and with (b, now + expiration) for id; from then on a Get
\* on id that returns a value returns the answer of the latest Set(id), and a
\* Get(id, false) run no later than the expiration after that Set returns (b, nil).
C5_Overwrite ==
    [][\A t \in Threads :
          /\ (SetReturns(t) /\ op[t].id \in DOMAIN items) =>
                /\ DOMAIN items' = DOMAIN items
                /\ items'[op[t].id] =
                      [expiration |-> now + expiration, answer |-> op[t].answer]
          /\ (GetReturns(t) /\ op[t].id \in DOMAIN pending) =>
                /\ ret'[t].err = nil => ret'[t].answer = pending[op[t].id].answer
                /\ (~op[t].clear /\ Live(op[t].id)) =>
                      Result(ret'[t]) = Value(pending[op[t].id].answer)]_vars

\* A thread's Set replaced a stored entry of another answer, and the thread's Get
\* after it has returned a value.
C5_Witness ==
    \E t \in Threads :
        /\ pc[t] = "idle"
        /\ fresh[t].over
        /\ ret[t].err = nil
        /\ ret[t].answer \in Answers

\* C6: a Get that fails, with either flag, leaves the map as it was: NotFound adds
\* nothing and Expired leaves the expired entry stored.
C6_FailedGetFrame ==
    [][\A t \in Threads :
          (GetReturns(t) /\ ret'[t].err # nil) =>
              /\ items' = items
              /\ ret'[t].err = ErrExpiredCaptcha => op[t].id \in DOMAIN items']_vars

\* Only t1 has ever called; its last call was a Get(id, true) that returned Expired,
\* and both ids are still stored.
C6_Witness ==
    /\ pc["t2"] = "idle" /\ ret["t2"] = NoRet
    /\ pc["t1"] = "idle"
    /\ ret["t1"] = Returned(Failure(ErrExpiredCaptcha), TRUE)
    /\ DOMAIN items = Ids

\* C7: a Get(id, false) changes nothing in the map, whatever it returns; run on the
\* entry of the latest Set(id, v) before that entry expires it returns (v, nil) and
\* leaves the entry as it found it, so that the next one finds the same.
C7_NonConsumingGet ==
    [][\A t \in Threads :
          (GetReturns(t) /\ ~op[t].clear) =>
              /\ items' = items
              /\ Live(op[t].id) =>
                    /\ Result(ret'[t]) = Value(pending[op[t].id].answer)
                    /\ op[t].id \in DOMAIN items']_vars

\* Both threads' last calls were Get(id, false) that returned "a", the answer of x,
\* the only id stored, which t1 Set and nothing has changed since.
C7_Witness ==
    /\ pc["t1"] = "idle" /\ pc["t2"] = "idle"
    /\ ret["t1"] = Returned(Value("a"), FALSE)
    /\ ret["t2"] = Returned(Value("a"), FALSE)
    /\ fresh["t1"].id = "x"
    /\ DOMAIN items = {"x"}
    /\ consumed = {}

\* C8: Set cannot fail: whenever Set returns it returns nil and the map holds an
\* entry for id with the answer given.
C8_SetSucceeds ==
    [][\A t \in Threads :
          SetReturns(t) =>
              /\ ret'[t].err = nil
              /\ op[t].id \in DOMAIN items'
              /\ items'[op[t].id].answer = op[t].answer]_vars

\* A Set has returned on an id that held an entry of another answer.
C8_Witness ==
    \E t \in Threads :
        /\ pc[t] = "idle"
        /\ ret[t] = Returned(Value(""), FALSE)
        /\ fresh[t].over
        /\ fresh[t].id \in DOMAIN items

\* the entries a Set can store
Entries == [expiration : (0 - 1)..(MaxTime + 1), answer : Answers]

\* C9: sweep eviction.  With the ticker firing and the lock fair, an entry that the
\* clock has passed does not stay: it is removed from the map (or a Set replaces it).
C9_SweepEviction ==
    \A id \in {"x"} : \A e \in Entries :
        (id \in DOMAIN items /\ items[id] = e /\ now > e.expiration)
            ~> ~(id \in DOMAIN items /\ items[id] = e)

\* Only t1 has ever called and its last call was a Set; no call came after it, and
\* the map is empty: the sweep removed the entry.
C9_Witness ==
    /\ pc["t2"] = "idle" /\ ret["t2"] = NoRet
    /\ pc["t1"] = "idle" /\ ret["t1"] = Returned(Value(""), FALSE)
    /\ DOMAIN items = {}

\* who is inside a critical section
InCS(p) == IF p = GC THEN gcpc = "cs" ELSE pc[p] = "cs"
\* who needs the lock exclusively: Set, Get(id, true), the sweep
Exclusive(p) == IF p = GC THEN TRUE ELSE op[p].kind = "Set" \/ op[p].clear

\* C10: lock discipline.  While a Set, a Get(id, true) or the sweep is inside its
\* critical section nobody else is inside one, and whoever is inside one holds the
\* lock in the mode it asked for.
C10_LockDiscipline ==
    /\ \A p, q \in Threads \cup {GC} :
          (p # q /\ InCS(p) /\ Exclusive(p)) => ~InCS(q)
    /\ \A p \in Threads \cup {GC} :
          InCS(p) => IF Exclusive(p) THEN writer = p /\ readers = {}
                                     ELSE p \in readers

\* A Get(id, true) is inside its critical section, alone, after a Get(id, false)
\* has returned a value, while the sweep waits for the lock.
C10_Witness ==
    /\ pc["t1"] = "cs" /\ op["t1"].clear
    /\ pc["t2"] = "idle" /\ ret["t2"].err # "none" /\ ~ret["t2"].clear
    /\ ret["t2"].answer \in Answers
    /\ gcpc = "lock"

\* C11: single use under concurrency.  A Get(id, true) looks the entry up and
\* deletes it in one critical section: when it returns a value no other
\* Get(id, true) has returned a value since the latest Set(id), the entry is gone
\* when the lock is released, and a competing Get(id, true) that runs after it with
\* no Set(id) in between returns an error, ErrIncorrectCaptcha, and no value.
C11_SingleUse ==
    [][\A t \in Threads :
          (GetReturns(t) /\ op[t].clear) =>
              /\ ret'[t].err = nil =>
                    /\ op[t].id \notin consumed
                    /\ op[t].id \in consumed'
                    /\ op[t].id \notin DOMAIN items'
              /\ op[t].id \in consumed =>
                    /\ ret'[t].err \in {ErrIncorrectCaptcha, ErrExpiredCaptcha}
                    /\ ret'[t].answer = ""
                    /\ consumed' = consumed]_vars

\* t1's Get(x, true) has returned "a" and taken the entry, and t2's Get(x, true)
\* is inside its critical section with no Set(x) since.
C11_Witness ==
    /\ pc["t1"] = "idle" /\ ret["t1"] = Returned(Value("a"), TRUE)
    /\ consumed = {"x"}
    /\ pc["t2"] = "cs" /\ op["t2"].kind = "Get" /\ op["t2"].clear /\ op["t2"].id = "x"

\* the entries of the ids other than id are the same in m and n
SameElsewhere(m, n, id) ==
    /\ (DOMAIN m) \ {id} = (DOMAIN n) \ {id}
    /\ \A j \in (DOMAIN m) \ {id} : n[j] = m[j]

\* C12: no lost update on disjoint ids.  A Set or a Get on id, whatever it returns,
\* leaves the entry of every other id as it was; and after every step each id whose
\* latest Set no Get(id, true) has consumed and no sweep has removed is in the map
\* with the answer that Set wrote.
C12_DisjointIds ==
    [][/\ \A t \in Threads :
             (SetReturns(t) \/ GetReturns(t)) => SameElsewhere(items, items', op[t].id)
       /\ \A id \in DOMAIN pending' :
             /\ id \in DOMAIN items'
             /\ items'[id].answer = pending'[id].answer]_vars

\* t1 Set x to "a" and t2 Set y to "b", neither has called anything since, and
\* both entries are in the map.
C12_Witness ==
    /\ pc["t1"] = "idle" /\ ret["t1"] = Returned(Value(""), FALSE)
    /\ pc["t2"] = "idle" /\ ret["t2"] = Returned(Value(""), FALSE)
    /\ fresh["t1"].id = "x" /\ fresh["t2"].id = "y"
    /\ DOMAIN items = {"x", "y"}
    /\ items["x"].answer = "a" /\ items["y"].answer = "b"

\* the sweep leaves its critical section in this step
GcReturns == gcpc = "cs" /\ gcpc' = "idle"

\* C13: an entry leaves the map by three paths only.  In every step, an entry that
\* is removed or replaced is (a) the one a Get(id, true) returns the answer of,
\* (b) one the sweep found past its expiration, or (c) one a Set on the same id
\* overwrote; a Get(id, false), a Get that fails, a Set or a Get on another id, a
\* tick and a lock step remove and replace nothing.
C13_RemovalPaths ==
    [][\A id \in DOMAIN items :
          (id \notin DOMAIN items' \/ items'[id] # items[id]) =>
              \/ \E t \in Threads :
                    /\ GetReturns(t) /\ op[t].clear /\ op[t].id = id
                    /\ Result(ret'[t]) = Value(items[id].answer)
                    /\ id \notin DOMAIN items'
              \/ /\ GcReturns
                 /\ gcNow > items[id].expiration
                 /\ now > items[id].expiration
                 /\ id \notin DOMAIN items'
              \/ \E t \in Threads :
                    /\ SetReturns(t) /\ op[t].id = id
                    /\ id \in DOMAIN items']_vars

\* t1's Get(x, true) has returned "a" and taken the entry of x, and t2's Set on y
\* has replaced an entry of another answer.
C13_Witness ==
    /\ pc["t1"] = "idle" /\ ret["t1"] = Returned(Value("a"), TRUE)
    /\ consumed = {"x"}
    /\ pc["t2"] = "idle" /\ fresh["t2"] = [id |-> "y", over |-> TRUE]
    /\ DOMAIN items = {"y"}

\* C14: a sweep pass.  The pass takes its sample, then the lock, once each, and
\* keeps the sample until it is done; it runs alone under the exclusive lock and
\* releases it; it deletes exactly the entries whose expiration its sample has
\* passed and leaves every other entry as it was, so that when it releases the lock
\* the map holds no entry whose expiration the sample of the pass had passed.
C14_SweepPass ==
    [][/\ GcReturns =>
             /\ writer = GC /\ readers = {} /\ writer' = NoOne
             /\ DOMAIN items' = {id \in DOMAIN items : ~(gcNow > items[id].expiration)}
             /\ \A id \in DOMAIN items' : items'[id] = items[id]
             /\ \A id \in DOMAIN items' : ~(gcNow > items'[id].expiration)
       /\ (gcpc # "idle" /\ ~GcReturns) => gcNow' = gcNow
       /\ (writer # GC /\ writer' = GC) => gcpc = "lock"
       /\ (gcpc = "idle" /\ gcpc' # "idle") => (gcNow' = now /\ gcpc' = "lock")]_vars

\* Only t1 has ever called; its last call was a Get(id, false) that returned
\* Expired.  y is stored and not expired, so that Get was on x, which is gone: the
\* sweep deleted x and kept y.
C14_Witness ==
    /\ pc["t2"] = "idle" /\ ret["t2"] = NoRet
    /\ pc["t1"] = "idle" /\ ret["t1"] = Returned(Failure(ErrExpiredCaptcha), FALSE)
    /\ gcpc = "idle"
    /\ DOMAIN items = {"y"}
    /\ ~(now > items["y"].expiration)

\* C15: the expiration of an entry.  A Set stores its clock reading plus
\* s.expiration; after every step each stored entry's expiration is the clock
\* reading of the Set that stored it plus s.expiration; and the expiration of an id
\* that stays stored changes in no step but the return of a Set on that id: no Get,
\* no sweep, no tick extends or shortens it.
C15_ExpiresAt ==
    [][/\ \A t \in Threads :
             SetReturns(t) => items'[op[t].id].expiration = now + expiration
       /\ \A id \in DOMAIN items' :
             /\ id \in DOMAIN pending'
             /\ items'[id].expiration = pending'[id].at + expiration
       /\ \A id \in (DOMAIN items) \cap (DOMAIN items') :
             items'[id].expiration # items[id].expiration =>
                 \E t \in Threads : SetReturns(t) /\ op[t].id = id]_vars

\* A thread's Get(id, false) after its own Set(id) has returned the answer, the
\* clock has moved on since that Set, and the entry is stored with the expiration
\* the Set gave it.
C15_Witness ==
    \E t \in Threads : \E id \in DOMAIN items :
        /\ pc[t] = "idle" /\ fresh[t].id = id
        /\ ret[t].err = nil /\ ret[t].answer \in Answers /\ ~ret[t].clear
        /\ pending[id].at < now
        /\ items[id].expiration = pending[id].at + expiration

\* C16: the expiry test is strict.  A Get returns ErrExpiredCaptcha only when the
\* clock is past the entry's expiration; a Get whose clock reading equals the
\* expiration returns the answer, removes the entry when clear is set and leaves the
\* map alone when it is not; and the sweep keeps, unchanged, an entry whose
\* expiration equals its sample.
C16_StrictExpiry ==
    [][/\ \A t \in Threads : GetReturns(t) =>
             /\ ret'[t].err = ErrExpiredCaptcha =>
                   (op[t].id \in DOMAIN items /\ now > items[op[t].id].expiration)
             /\ (op[t].id \in DOMAIN items /\ now = items[op[t].id].expiration) =>
                   /\ Result(ret'[t]) = Value(items[op[t].id].answer)
                   /\ IF op[t].clear THEN items' = Delete(items, op[t].id)
                                     ELSE items' = items
       /\ GcReturns =>
             \A id \in DOMAIN items :
                 gcNow = items[id].expiration =>
                     (id \in DOMAIN items' /\ items'[id] = items[id])]_vars

\* The expiration is 0, so an entry is valid at the clock reading of its Set only.
\* t2's last call, a Get(id, false), returned "a": its clock reading was the
\* entry's expiration.  t1's last call, a Get(id, false), returned Expired; x is
\* not expired, so that Get was on y, which only a sweep after it can have removed.
\* x holds "b", so no Set after that sweep stored it (t2's last call returned "a"):
\* x was in the map with expiration 1, the sample of the sweep, and the sweep kept
\* it.
C16_Witness ==
    /\ expiration = 0 /\ now = 1
    /\ pc["t1"] = "idle" /\ ret["t1"] = Returned(Failure(ErrExpiredCaptcha), FALSE)
    /\ pc["t2"] = "idle" /\ ret["t2"] = Returned(Value("a"), FALSE)
    /\ gcpc = "idle"
    /\ DOMAIN items = {"x"}
    /\ items["x"] = [expiration |-> 1, answer |-> "b"]
    /\ consumed = {}

\* C17: non-consuming Gets share the lock.  Whoever holds the lock shared, a thread
\* that calls Get(id, false) gets past RLock unless a writer holds or waits for the
\* lock: readers never hold each other back.
C17_ReadersShare ==
    \A t \in Threads :
        (pc[t] = "idle" /\ writer = NoOne) =>
            \A id \in Ids : ENABLED GetRLock(t, id)

\* Two Get(x, false) are inside their critical sections at the same time, on an
\* entry that is stored.
C17_Witness ==
    /\ readers = {"t1", "t2"}
    /\ pc["t1"] = "cs" /\ op["t1"] = [kind |-> "Get", id |-> "x", answer |-> "",
                                      clear |-> FALSE]
    /\ pc["t2"] = "cs" /\ op["t2"] = op["t1"]
    /\ "x" \in DOMAIN items

\* who is in a call or a pass, and who holds the lock
Busy(p) == IF p = GC THEN gcpc # "idle" ELSE pc[p] # "idle"
Holds(p) == writer = p \/ p \in readers
PastLock(p) == IF p = GC THEN gcpc \in {"drain", "cs"} ELSE pc[p] \in {"drain", "cs"}

\* Nobody holds the lock but who is past its Lock or RLock and has not returned;
\* and who is inside a critical section can take its next step: its body waits for
\* nothing.
C18_Released ==
    /\ \A p \in Threads \cup {GC} : Holds(p) => PastLock(p)
    /\ \A t \in Threads :
          pc[t] = "cs" => ENABLED (SetBody(t) \/ GetBody(t) \/ GetAndDelBody(t))
    /\ gcpc = "cs" => ENABLED GcBody

\* C18: no deadlock and no lock left held.  Under fair lock acquisition every Set,
\* every Get on each of its paths and every sweep pass that has started completes;
\* who has completed holds no lock; and inside a critical section nothing waits.
C18_Completes ==
    /\ []C18_Released
    /\ \A p \in Threads \cup {GC} : Busy(p) ~> ~Busy(p)

\* Everybody is done and the lock is free, after a Get(x, true) that returned
\* Expired and a Get(x, false) that returned NotFound.
C18_Witness ==
    /\ \A p \in Threads \cup {GC} : ~Busy(p)
    /\ writer = NoOne /\ readers = {}
    /\ ret["t1"] = Returned(Failure(ErrExpiredCaptcha), TRUE)
    /\ ret["t2"] = Returned(Failure(ErrIncorrectCaptcha), FALSE)

\* C19: the sample of the sweep is older than its scan.  Whatever ran between the
\* sample and the scan, an entry the sweep deletes is one that a Get at that moment
\* would answer with ErrExpiredCaptcha; and with an expiration that is not negative
\* the sweep keeps, unchanged, every entry that was Set or overwritten at or after
\* its sample.
C19_StaleSample ==
    [][GcReturns =>
          \A id \in DOMAIN items :
              /\ id \notin DOMAIN items' => get(id).err = ErrExpiredCaptcha
              /\ (expiration >= 0 /\ pending[id].at >= gcNow) =>
                    (id \in DOMAIN items' /\ items'[id] = items[id])]_vars

\* The sweep took its sample at 0 and is in its critical section at 1, about to
\* scan; in between t1's Set overwrote x, which held another answer, with an entry
\* that is still valid.
C19_Witness ==
    /\ gcpc = "cs" /\ gcNow = 0 /\ now = 1
    /\ expiration >= 0
    /\ pc["t1"] = "idle" /\ fresh["t1"] = [id |-> "x", over |-> TRUE]
    /\ pending["x"].at = 1
    /\ get("x").err = nil

\* C20: expiry is permanent.  Once a Get on id has returned ErrExpiredCaptcha and
\* until the next Set(id), no Get on id returns a value: it returns
\* ErrExpiredCaptcha while the entry is stored and ErrIncorrectCaptcha once it is
\* not; and nothing but the sweep takes that entry out of the map.
C20_ExpiryPermanent ==
    [][/\ \A t \in Threads :
             (GetReturns(t) /\ op[t].id \in expired) =>
                 Result(ret'[t]) =
                     IF op[t].id \in DOMAIN items THEN Failure(ErrExpiredCaptcha)
                                                 ELSE Failure(ErrIncorrectCaptcha)
       /\ \A id \in expired \cap DOMAIN items :
             \/ id \in DOMAIN items' /\ items'[id] = items[id]
             \/ GcReturns /\ id \notin DOMAIN items'
             \/ \E t \in Threads : SetReturns(t) /\ op[t].id = id]_vars

\* Only t1 has ever called.  A Get on x returned Expired and no Set(x) followed;
\* t1's last call is a Get that returned NotFound while y was stored, so it was on
\* x, after the sweep had removed the expired entry.
C20_Witness ==
    /\ pc["t2"] = "idle" /\ ret["t2"] = NoRet
    /\ pc["t1"] = "idle" /\ Result(ret["t1"]) = Failure(ErrIncorrectCaptcha)
    /\ expired = {"x"}
    /\ consumed = {}
    /\ DOMAIN items = {"y"}

====
